---- MODULE Spec2Model ----
(***************************************************************************)
(* A model of the agent / tool / permission mediation layer of             *)
(* cursor-agent: BaseAgent (src/agent/base.py) and OllamaAgent             *)
(* (src/agent/ollama_agent.py).                                            *)
(*                                                                         *)
(* Python values are encoded as follows.                                   *)
(*   - a str is a tuple <<"s", t1, ..., tn>> of the tokens it is the       *)
(*     concatenation of: S(t) is the one-token string, <<"s">> is "",      *)
(*     Cat is +, an f-string is the Cat of its pieces;                     *)
(*   - None is <<"none">>, so that str(None) = S("None") differs from it;  *)
(*   - dictionary keys (tool names, operation tags), hosts and opaque      *)
(*     objects (functions, parameter mappings) are atomic tokens.          *)
(***************************************************************************)
EXTENDS Integers, Sequences, FiniteSets, TLC

VARIABLES
    \* ---- tool registry and dispatch (BaseAgent.available_tools) ----
    available_tools,    \* name -> RegisteredTool, or NoEntry
    lastReg,            \* observer: name -> arguments of its latest register_tool
    prevReg,            \* observer: name -> arguments of the register_tool before that
    batch,              \* the raw tool calls last given to _execute_tool_calls
    tool_results,       \* what that _execute_tool_calls returned
    invoked,            \* observer: the tool functions it invoked, in order
    effects,            \* observer: the side effects those invocations performed
    execPc,             \* "idle", or "returned" while the caller holds tool_results
    prepared,           \* observer: what the latest _prepare_tools calls returned
    \* ---- permissions (BaseAgent.permission_manager) ----
    permission_manager, \* the PermissionManager built by BaseAgent.__init__
    permArgs,           \* observer: the arguments BaseAgent.__init__ was given
    permLog,            \* observer: the request_permission calls made, in order
    \* ---- the default permission callback (BaseAgent._permission_request_callback) ----
    promptPc,           \* "idle", "prompting", "returned", or "raised"
    answers,            \* observer: the lines typed at its prompt, in order
    promptResult,       \* the PermissionStatus it returned, or "<none>"
    \* ---- the OLLAMA_HOST environment variable and the agents using it ----
    environ,            \* os.environ["OLLAMA_HOST"], or NoneTok when unset
    agents,             \* agent -> phase and the attributes __init__ set
    priorEnv,           \* observer: agent -> environ when its construction began
    overlapped,         \* observer: agent -> another agent existed during its life
    baseEnv,            \* observer: environ when last no agent existed
    \* ---- conversation (OllamaAgent.chat) ----
    conversation_history,   \* the list of {"role", "content"} turns
    model,              \* self.model
    chats,              \* chat call -> where it is: "idle", or "awaiting" the backend
    nStarted,           \* number of chat calls started
    chatLog,            \* observer: the chat calls that ended, in order of ending
    \* ---- the chat coroutines on the event loop, statement by statement ----
    running,            \* the chat call that holds the event loop, or "none"
    taskPc,             \* chat call -> "idle", "awaiting", "loop" or "in_tool"
    todo,               \* chat call -> the tool calls its loop has not finished
    begun,              \* observer: chat call -> tool invocations it began
    recorded,           \* observer: chat call -> results it appended
    \* ---- OllamaAgent.query_image ----
    query,              \* the query_image call: "idle", or "awaiting" the backend
    queryLog,           \* observer: the query_image calls that ended, in order
    \* ---- tools.search_tools.grep_search over the files under os.getcwd() ----
    grepPc,             \* "idle", "rg", "walk", "files", "broke", "return", "returned"
    grepArgs,           \* the include_pattern and exclude_pattern it was called with
    walked,             \* how far os.walk and the loop over `files` have got
    results,            \* the local list `results`
    grepRet             \* the dict grep_search returned

toolVars == <<available_tools, lastReg, prevReg, batch, tool_results, invoked,
              effects, execPc, prepared>>

promptVars == <<promptPc, answers, promptResult>>

permVars == <<permission_manager, permArgs, permLog, promptVars>>

searchVars == <<grepPc, grepArgs, walked, results, grepRet>>

envVars == <<environ, agents, priorEnv, overlapped, baseEnv, searchVars>>

schedVars == <<running, taskPc, todo, begun, recorded>>

queryVars == <<query, queryLog>>

chatVars == <<conversation_history, model, chats, nStarted, chatLog, schedVars,
              queryVars>>

vars == <<toolVars, permVars, envVars, chatVars>>

-----------------------------------------------------------------------------
(* Python values *)

None == <<"none">>
S(t) == <<"s", t>>
EmptyStr == <<"s">>
Cat(a, b) == a \o Tail(b)
IsStr(v) == Len(v) >= 1 /\ v[1] = "s"

\* dict.get(key, default) on a record that marks a missing key by Absent
Absent == "<absent>"
Get(d, key, default) == IF d[key] = Absent THEN default ELSE d[key]
\* the same for a dict whose values are strings or None
AbsentV == <<"absent">>
GetV(d, key, default) == IF d[key] = AbsentV THEN default ELSE d[key]

-----------------------------------------------------------------------------
(* Bounds and input domains *)

MaxBatch == 3

Names == {"x", "y"}
FnIds == {"t_ok", "t_fail", "t_raise", "t_bad"}
Descriptions == {"d1", "d2"}
\* declared parameters: with "properties", with "properties" and "required",
\* without either
ParamSpecs == {"props", "props_req", "noprops"}
NoArgs == [function |-> "<none>", description |-> "<none>", parameters |-> "<none>"]
NoEntry ==
    [function |-> "<none>",
     schema |-> [name |-> "<none>", description |-> "<none>", parameters |-> "<none>"]]
RegFnIds == {"t_ok", "t_raise"}
RegArgs == [function : RegFnIds, description : Descriptions, parameters : ParamSpecs]

EmptyParams == "{}"
ParamVals == {"p1"}

MaxPermCalls == 2
\* lines typed at one prompt of the default callback
MaxAnswers == 3

Operations == {"create_file", "delete_file"}
Policies == {"always_allow", "always_deny", "confirm"}
DetailVals == {"det1", "det2"}
\* what a decision callback may return (ASK is the internal marker only)
Answers == {"GRANTED", "DENIED"}
\* what an invocation of the decision callback ends with: an answer, or an exception
CallbackOutcomes == Answers \cup {"RAISE"}
CallbackErrorMsg == <<"s", "callback failed">>

\* None where the other values are atomic tokens
NoneTok == "<None>"
AgentIds == {"a1", "a2"}
\* values OLLAMA_HOST may hold before any agent exists, and host arguments
EnvVals == {NoneTok, "", "http://env:1"}
HostArgs == {NoneTok, "", "http://arg:1", "http://arg:2"}
DefaultHost == "http://localhost:11434"

MaxChats == 2
\* query_image calls made
MaxQueries == 2
\* calls made in a run that mixes all operations of an agent
MaxOps == 3

ChatIds == {"c1", "c2"}
Messages == {"m1", "m2"}
\* user_info: None, a dict with entries, or the empty dict
EmptyDict == "{}"
UserInfos == {NoneTok, "ui1", EmptyDict}
\* the arguments of the chat calls
ChatInputs ==
    {i \in Messages \X UserInfos : i # <<"m1", "ui1">> /\ i # <<"m2", EmptyDict>>}
Models == {"llama3", ""}

\* a raw tool call: a dict that may lack either key
RawCalls == [name : Names \cup {Absent}, parameters : ParamVals \cup {Absent}]

Batches == UNION {[1..n -> RawCalls] : n \in 0..MaxBatch}

-----------------------------------------------------------------------------
(* The tool registry: BaseAgent.register_tool *)

EmptyRegistry == [n \in Names |-> NoEntry]

\* `name in self.available_tools`
HasTool(reg, name) == name \in DOMAIN reg /\ reg[name] # NoEntry

\* a register_tool that keeps an entry already present (first-write-wins)
register_tool_setdefault(reg, name, function, description, parameters) ==
    IF reg[name] # NoEntry THEN reg
    ELSE [reg EXCEPT ![name] =
            [function |-> function,
             schema |-> [name |-> name, description |-> description,
                         parameters |-> parameters]]]

\* self.available_tools[name] = {"function": ..., "schema": {...}}
register_tool(reg, name, function, description, parameters) ==
    [reg EXCEPT ![name] =
        [function |-> function,
         schema |-> [name |-> name, description |-> description,
                     parameters |-> parameters]]]

RegisterTool(name, a) ==
    /\ available_tools' =
          register_tool(available_tools, name, a.function, a.description, a.parameters)
    /\ lastReg' = [lastReg EXCEPT ![name] = a]
    /\ prevReg' = [prevReg EXCEPT ![name] = lastReg[name]]
    /\ prepared' = <<>>
    /\ UNCHANGED <<batch, tool_results, invoked, effects, execPc, permVars, envVars,
                   chatVars>>

-----------------------------------------------------------------------------
(* Permissions.  agent/permissions.py is imported by base.py (line 5):      *)
(* PermissionOptions, PermissionRequest and PermissionManager follow the    *)
(* documented design of the permission manager.                             *)

\* PermissionOptions: operation tag -> policy (Absent when unlisted), and a default
OptionSets == [ops : [Operations -> Policies \cup {Absent}], default : Policies]
\* PermissionOptions(): nothing listed, every operation needs confirmation
DefaultOptions == [ops |-> [o \in Operations |-> Absent], default |-> "confirm"]

PermissionRequest(operation, details) == [operation |-> operation, details |-> details]

PolicyFor(options, operation) == Get(options.ops, operation, options.default)

\* PermissionManager.request_permission: the boolean returned and the callback
\* invocations made (which callback, with which request); `answer` is what the
\* callback invoked ends with; when it raises, the exception leaves
\* request_permission (`raised`) and there is no returned value
PermissionManager_request_permission(mgr, operation, details, answer) ==
    LET request == PermissionRequest(operation, details)
        policy == PolicyFor(mgr.options, operation)
    IN  CASE policy = "always_allow" -> [ret |-> TRUE, calls |-> <<>>, raised |-> FALSE]
          [] policy = "always_deny"  -> [ret |-> FALSE, calls |-> <<>>, raised |-> FALSE]
          [] OTHER ->
               [ret |-> (answer = "GRANTED"),
                calls |-> <<[callback |-> IF mgr.callback = "<none>" THEN "interactive"
                                          ELSE mgr.callback,
                             request |-> request]>>,
                raised |-> (answer = "RAISE")]

\* constructor arguments: permission_options (given or None), permission_callback
PermArgSets ==
    [given : {TRUE}, options : OptionSets, callback : {"custom", "<none>"}]
    \cup [given : {FALSE}, options : {DefaultOptions}, callback : {"custom", "<none>"}]

\* a constructor that builds the manager without the options it was given
NewPermissionManagerNoOptions(args) ==
    [options |-> DefaultOptions, callback |-> args.callback]

\* BaseAgent.__init__: PermissionManager(options=permission_options or
\* PermissionOptions(), callback=permission_callback)
NewPermissionManager(args) ==
    [options |-> IF args.given THEN args.options ELSE DefaultOptions,
     callback |-> args.callback]

\* a forwarding call that drops the details
request_permission_no_details(mgr, operation_type, details, answer) ==
    PermissionManager_request_permission(mgr, operation_type, "{}", answer)

\* a forwarding call that remembers a grant: once an operation with these details
\* was allowed, later requests for it are allowed without asking again
request_permission_cached(mgr, operation_type, details, answer) ==
    IF \E i \in 1..Len(permLog) :
           /\ permLog[i].operation = operation_type
           /\ permLog[i].details = details
           /\ permLog[i].ret
    THEN [ret |-> TRUE, calls |-> <<>>, raised |-> FALSE]
    ELSE PermissionManager_request_permission(mgr, operation_type, details, answer)

\* a forwarding call that catches a failing callback and allows the operation
request_permission_fail_open(mgr, operation_type, details, answer) ==
    LET r == PermissionManager_request_permission(mgr, operation_type, details, answer)
    IN  IF r.raised THEN [ret |-> TRUE, calls |-> r.calls, raised |-> FALSE] ELSE r

\* BaseAgent.request_permission: forwards to the permission manager
request_permission(mgr, operation_type, details, answer) ==
    PermissionManager_request_permission(mgr, operation_type, details, answer)

RequestPermission(operation_type, details, answer) ==
    LET r == request_permission(permission_manager, operation_type, details, answer)
    IN  /\ Len(permLog) < MaxPermCalls
        /\ permLog' = Append(permLog,
              [operation |-> operation_type, details |-> details, answer |-> answer,
               ret |-> r.ret, calls |-> r.calls])
        /\ UNCHANGED <<permission_manager, permArgs, promptVars, toolVars, envVars,
                       chatVars>>

\* ---- the default interactive callback ----
\* a line typed at the prompt is a sequence of characters
Whitespace == {" ", "\t"}
\* str.lower, character by character
LowerChar(ch) ==
    CASE ch = "Y" -> "y" [] ch = "E" -> "e" [] ch = "S" -> "s"
      [] ch = "N" -> "n" [] ch = "O" -> "o" [] OTHER -> ch
Lower(line) == [i \in 1..Len(line) |-> LowerChar(line[i])]
\* str.strip: leading and trailing whitespace removed
RECURSIVE LStrip(_)
LStrip(line) ==
    IF line # <<>> /\ Head(line) \in Whitespace THEN LStrip(Tail(line)) ELSE line
RECURSIVE RStrip(_)
RStrip(line) ==
    IF line # <<>> /\ line[Len(line)] \in Whitespace
    THEN RStrip(SubSeq(line, 1, Len(line) - 1)) ELSE line
Strip(line) == RStrip(LStrip(line))
\* a normalisation that trims and keeps the case
NormalizeNoLower(line) == Strip(line)
\* line 141: input(...).strip().lower()
Normalize(line) == Lower(Strip(line))

\* the lines a user may type
TypedLines ==
    {<<"y">>, <<"Y", "E", "S">>, <<" ", "y", "e", "s", " ">>, <<"n">>,
     <<"\t", "N", "o">>, <<>>, <<"y", " ", "e", "s">>, <<"a", "s", "k">>,
     <<"y", "e", "s", "!">>}

\* the callback is invoked: it prints the request and prompts (lines 137-141)
PromptBegin ==
    /\ promptPc = "idle"
    /\ promptPc' = "prompting"
    /\ answers' = <<>>
    /\ promptResult' = "<none>"
    /\ UNCHANGED <<permission_manager, permArgs, permLog, toolVars, envVars, chatVars>>

\* one pass of the loop (lines 140-147): a line is read and either decides or
\* makes the loop prompt again
PromptAnswer(line) ==
    LET response == Normalize(line)
    IN  /\ promptPc = "prompting"
        /\ Len(answers) < MaxAnswers
        /\ answers' = Append(answers, line)
        /\ IF response \in {<<"y">>, <<"y", "e", "s">>}
           THEN promptPc' = "returned" /\ promptResult' = "GRANTED"
           ELSE IF response \in {<<"n">>, <<"n", "o">>}
           THEN promptPc' = "returned" /\ promptResult' = "DENIED"
           ELSE UNCHANGED <<promptPc, promptResult>>
        /\ UNCHANGED <<permission_manager, permArgs, permLog, toolVars, envVars,
                       chatVars>>

\* input() finds standard input closed: EOFError leaves the callback
PromptEof ==
    /\ promptPc = "prompting"
    /\ promptPc' = "raised"
    /\ UNCHANGED <<answers, promptResult>>
    /\ UNCHANGED <<permission_manager, permArgs, permLog, toolVars, envVars, chatVars>>

\* the caller has the outcome of the callback
PromptDone ==
    /\ promptPc \in {"returned", "raised"}
    /\ promptPc' = "idle"
    /\ answers' = <<>>
    /\ promptResult' = "<none>"
    /\ UNCHANGED <<permission_manager, permArgs, permLog, toolVars, envVars, chatVars>>

IdlePrompt ==
    /\ promptPc = "idle"
    /\ answers = <<>>
    /\ promptResult = "<none>"

InitPerm ==
    /\ permArgs \in PermArgSets
    /\ permission_manager = NewPermissionManager(permArgs)
    /\ permLog = <<>>
    /\ IdlePrompt

\* the permission state of an agent constructed with no permission arguments
IdlePerm ==
    /\ permArgs = [given |-> FALSE, options |-> DefaultOptions, callback |-> "<none>"]
    /\ permission_manager = NewPermissionManager(permArgs)
    /\ permLog = <<>>
    /\ IdlePrompt

-----------------------------------------------------------------------------
(* Tool functions: external callables, told apart by what they do when      *)
(* called with **parameters.                                                *)

\* `effect`: the call performed the tool's side effect
Return(output, error) ==
    [kind |-> "return", isDict |-> TRUE, output |-> output, error |-> error,
     msg |-> None, effect |-> FALSE]
ReturnAfterEffect(output) ==
    [kind |-> "return", isDict |-> TRUE, output |-> output, error |-> None,
     msg |-> None, effect |-> TRUE]
Raise(msg) ==
    [kind |-> "raise", isDict |-> FALSE, output |-> AbsentV, error |-> AbsentV,
     msg |-> msg, effect |-> FALSE]
NonDict ==
    [kind |-> "return", isDict |-> FALSE, output |-> AbsentV, error |-> AbsentV,
     msg |-> None, effect |-> FALSE]

\* the decision callback of the agent, by the details it is asked about
CallbackAnswer(details) ==
    CASE details = "p_deny"  -> "DENIED"
      [] details = "p_raise" -> "RAISE"
      [] OTHER               -> "GRANTED"

\* a side-effecting tool: asks agent.request_permission for "create_file" with its
\* parameters first, acts only when allowed, and lets a failing callback escape
PermissionCheckedTool(params) ==
    LET r == request_permission(permission_manager, "create_file", params,
                                CallbackAnswer(params))
    IN  IF r.raised THEN Raise(CallbackErrorMsg)
        ELSE IF r.ret THEN ReturnAfterEffect(<<"s", "out:", params>>)
        ELSE Return(AbsentV, S("Permission denied"))

ToolOutput(params) == <<"s", "out:", params>>

ToolFunction(fn, params) ==
    CASE fn = "t_ok"    -> Return(ToolOutput(params), None)
      [] fn = "t_perm"  -> PermissionCheckedTool(params)
      [] fn = "t_fail"  -> Return(AbsentV, S("denied"))
      [] fn = "t_raise" -> Raise(S("boom"))
      [] OTHER          -> NonDict

\* str(e) of the AttributeError raised by result.get on a non-dict
AttrErrorMsg == S("'str' object has no attribute 'get'")

-----------------------------------------------------------------------------
(* OllamaAgent._execute_tool_calls *)

ToolCallResult(name, parameters, output, error) ==
    [name |-> name, parameters |-> parameters, output |-> output, error |-> error]

\* the message without the name substituted
NotFoundMsgNoName(tool_name) == S("Tool not found")

NotFoundMsg(tool_name) == <<"s", "Tool '", tool_name, "' not found">>
ExecErrorMsg(msg) == Cat(S("Error executing tool: "), msg)

\* the except branch of the loop body
ExceptResult(call, msg) ==
    ToolCallResult(Get(call, "name", "unknown"), Get(call, "parameters", EmptyParams),
                   EmptyStr, ExecErrorMsg(msg))

\* a dispatch that calls the function a second time when the first call raised
InvocationsWithRetry(tool_function, parameters) ==
    IF ToolFunction(tool_function, parameters).kind = "raise"
    THEN <<[function |-> tool_function, parameters |-> parameters],
           [function |-> tool_function, parameters |-> parameters]>>
    ELSE <<[function |-> tool_function, parameters |-> parameters]>>

\* line 378: the one call tool_function(**parameters) of an iteration
Invocations(tool_function, parameters) ==
    <<[function |-> tool_function, parameters |-> parameters]>>

\* one iteration of the loop: the result appended, and the function invoked (if any)
ExecuteOne(reg, call) ==
    LET tool_name == Get(call, "name", "")
        parameters == Get(call, "parameters", EmptyParams)
    IN  IF HasTool(reg, tool_name)
        THEN LET tool_function == reg[tool_name]["function"]
                 result == ToolFunction(tool_function, parameters)
                 inv == Invocations(tool_function, parameters)
             IN  IF result.kind = "raise"
                 THEN [res |-> ExceptResult(call, result.msg), inv |-> inv]
                 ELSE IF ~result.isDict
                 THEN [res |-> ExceptResult(call, AttrErrorMsg), inv |-> inv]
                 ELSE [res |-> ToolCallResult(tool_name, parameters,
                                  GetV(result, "output", EmptyStr),
                                  GetV(result, "error", None)),
                       inv |-> inv]
        ELSE [res |-> ToolCallResult(tool_name, parameters, EmptyStr,
                                     NotFoundMsg(tool_name)),
              inv |-> <<>>]

\* whether the loop body for `call` leaves the try block by an exception
Raises(reg, call) ==
    /\ HasTool(reg, Get(call, "name", ""))
    /\ LET result == ToolFunction(reg[Get(call, "name", "")]["function"],
                                  Get(call, "parameters", EmptyParams))
       IN  result.kind = "raise" \/ ~result.isDict

\* a loop with the try/except around the whole loop: the first exception ends it
RECURSIVE ExecLoopTryOutside(_, _, _)
ExecLoopTryOutside(reg, calls, acc) ==
    IF calls = <<>> THEN acc
    ELSE LET one == ExecuteOne(reg, Head(calls))
             next == [results |-> Append(acc.results, one.res),
                      invoked |-> acc.invoked \o one.inv]
         IN  IF Raises(reg, Head(calls)) THEN next
             ELSE ExecLoopTryOutside(reg, Tail(calls), next)

\* a loop that inserts each result at the front of the list
RECURSIVE ExecLoopInsertFront(_, _, _)
ExecLoopInsertFront(reg, calls, acc) ==
    IF calls = <<>> THEN acc
    ELSE LET one == ExecuteOne(reg, Head(calls))
         IN  ExecLoopInsertFront(reg, Tail(calls),
                      [results |-> <<one.res>> \o acc.results,
                       invoked |-> acc.invoked \o one.inv])

RECURSIVE ExecLoop(_, _, _)
ExecLoop(reg, calls, acc) ==
    IF calls = <<>> THEN acc
    ELSE LET one == ExecuteOne(reg, Head(calls))
         IN  ExecLoop(reg, Tail(calls),
                      [results |-> Append(acc.results, one.res),
                       invoked |-> acc.invoked \o one.inv])

execute_tool_calls(reg, calls) ==
    ExecLoop(reg, calls, [results |-> <<>>, invoked |-> <<>>])

\* tool_results is local to one call of _execute_tool_calls: the next call starts
\* once the caller has taken the returned list (TakeResults)
\* a loop that unregisters a tool whose call left the try block by an exception
RegistryAfterExecDropFailed(reg, calls) ==
    [n \in DOMAIN reg |->
        IF \E i \in 1..Len(calls) : Get(calls[i], "name", "") = n /\ Raises(reg, calls[i])
        THEN NoEntry ELSE reg[n]]

\* self.available_tools after _execute_tool_calls: the loop only tests membership
\* (line 371) and reads the entry (line 375)
RegistryAfterExec(reg, calls) == reg

\* the side effects of a sequence of invocations: the parameters of those that
\* went as far as acting
EffectsOf(invocations) ==
    LET acted(v) == ToolFunction(v.function, v.parameters).effect
        RECURSIVE collect(_)
        collect(q) ==
            IF q = <<>> THEN <<>>
            ELSE (IF acted(Head(q)) THEN <<Head(q).parameters>> ELSE <<>>)
                 \o collect(Tail(q))
    IN  collect(invocations)

ExecuteToolCalls(calls) ==
    LET r == execute_tool_calls(available_tools, calls)
    IN  /\ execPc = "idle"
        /\ execPc' = "returned"
        /\ batch' = calls
        /\ tool_results' = r.results
        /\ invoked' = r.invoked
        /\ effects' = EffectsOf(r.invoked)
        /\ available_tools' = RegistryAfterExec(available_tools, calls)
        /\ UNCHANGED <<lastReg, prevReg, prepared, permVars, envVars, chatVars>>

TakeResults ==
    /\ execPc = "returned"
    /\ execPc' = "idle"
    /\ batch' = <<>>
    /\ tool_results' = <<>>
    /\ invoked' = <<>>
    /\ effects' = <<>>
    /\ UNCHANGED <<available_tools, lastReg, prevReg, prepared, permVars, envVars,
                   chatVars>>

-----------------------------------------------------------------------------
(* OllamaAgent.__init__ and __del__: the OLLAMA_HOST override *)

\* Python truthiness of an optional string or dict, and `a or b`
Truthy(v) == v # NoneTok /\ v # "" /\ v # "{}"
Or(a, b) == IF Truthy(a) THEN a ELSE b

NoAgent == [phase |-> "none", has_original_host |-> FALSE,
            original_host |-> NoneTok, host |-> NoneTok, outcome |-> "none"]

\* how a construction ends: "early" raises before line 86 (the ImportError of
\* line 65, or an exception of super().__init__), "check" raises the
\* ConnectionError of line 108, "ok" returns
ConstructOutcomes == {"early", "check", "ok"}

Exists(a) == agents[a].phase \in {"alive", "failed"}

\* lines 85-91: the attributes set and the new value of the variable
init_host(env, host) ==
    LET original_host == env
        self_host == Or(host, Or(original_host, DefaultHost))
    IN  [original_host |-> original_host, host |-> self_host, environ |-> self_host]

Construct(a, host, outcome) ==
    /\ agents[a].phase = "none"
    /\ priorEnv' = [priorEnv EXCEPT ![a] = environ]
    /\ baseEnv' = IF \E c \in AgentIds : Exists(c) THEN baseEnv ELSE environ
    /\ overlapped' = [b \in AgentIds |->
                        IF b = a THEN \E c \in AgentIds \ {a} : Exists(c)
                        ELSE overlapped[b] \/ Exists(b)]
    /\ IF outcome = "early"
       THEN /\ agents' = [agents EXCEPT ![a] =
                            [NoAgent EXCEPT !.phase = "failed", !.outcome = outcome]]
            /\ UNCHANGED environ
       ELSE LET r == init_host(environ, host)
            IN  /\ agents' = [agents EXCEPT ![a] =
                                [phase |-> IF outcome = "ok" THEN "alive" ELSE "failed",
                                 has_original_host |-> TRUE,
                                 original_host |-> r.original_host,
                                 host |-> r.host,
                                 outcome |-> outcome]]
                /\ environ' = r.environ
    /\ UNCHANGED <<searchVars, toolVars, permVars, chatVars>>

\* a __del__ that removes the variable whatever it was before
del_host_pop(self, env) == NoneTok

\* __del__: the value of the variable after it
del_host(self, env) ==
    IF self.has_original_host
    THEN IF self.original_host # NoneTok THEN self.original_host ELSE NoneTok
    ELSE env

\* the agent object is discarded: after a return of __init__ when the caller drops
\* it, after a raise of __init__ when the exception is dropped
Del(a) ==
    /\ Exists(a)
    /\ environ' = del_host(agents[a], environ)
    /\ agents' = [agents EXCEPT ![a].phase = "discarded"]
    /\ UNCHANGED <<priorEnv, overlapped, baseEnv, searchVars, toolVars, permVars,
                   chatVars>>

-----------------------------------------------------------------------------
(* tools.search_tools.grep_search: the regex search over the working directory *)

\* lines 171 and 174: the number of matches at which the loops stop
MatchLimit == 50

\* the directories os.walk yields, and the files of one directory
MaxDirs == 2
MaxFiles == 2

\* a file the walk comes to: its name matches include_pattern or not, and
\* exclude_pattern or not; it can be read or not; it has `lines` lines, of which
\* every `every`-th matches the query
LineCounts == {0, 30, 60}
Files == [included : BOOLEAN, excluded : BOOLEAN, readable : BOOLEAN,
          lines : LineCounts, every : {1, 2}]

\* include_pattern and exclude_pattern: None or a pattern
Patterns == {NoneTok, "pat"}

\* what the ripgrep process printed: this many lines of type "match"
RgMatchCounts == {0, 30, 60}

\* one entry of `results`: lines 157-161 (fallback) and 133-137 (ripgrep)
Match(file_path, line_number) == [file |-> file_path, line_number |-> line_number]

\* os.path.join(root, file): the file is named by where the walk met it
FilePath(w) == <<w.dir, w.file + 1>>

\* lines 155-161: one entry for every line the query matches, in line order
RECURSIVE FileMatches(_, _, _)
FileMatches(file, file_path, i) ==
    IF i >= file.lines THEN <<>>
    ELSE (IF (i + 1) % file.every = 0 THEN <<Match(file_path, i + 1)>> ELSE <<>>)
         \o FileMatches(file, file_path, i + 1)

\* lines 146-168: what one file adds to `results`
SearchFile(args, file, file_path) ==
    IF Truthy(args.include_pattern) /\ ~file.included THEN <<>>
    ELSE IF Truthy(args.exclude_pattern) /\ file.excluded THEN <<>>
    ELSE IF ~file.readable THEN <<>>
    ELSE FileMatches(file, file_path, 0)

\* lines 146-168: the file reaches the check of line 171 (no `continue`)
ReachesLimitCheck(args, file) ==
    /\ ~(Truthy(args.include_pattern) /\ ~file.included)
    /\ ~(Truthy(args.exclude_pattern) /\ file.excluded)
    /\ file.readable

\* lines 171 and 174: `len(results) >= 50`
LimitReached(res) == Len(res) >= MatchLimit

\* lines 176-180: the dict returned
GrepResult(res) == [results |-> res, total_matches |-> Len(res)]

NoGrepArgs == [have_ripgrep |-> FALSE, include_pattern |-> NoneTok,
               exclude_pattern |-> NoneTok]
NoWalk == [dir |-> 0, files |-> 0, file |-> 0]
NoGrepResult == [results |-> <<>>, total_matches |-> -1]

\* lines 96-107: grep_search is called; the probe for ripgrep chooses the path
GrepSearch(have_ripgrep, include_pattern, exclude_pattern) ==
    /\ grepPc = "idle"
    /\ grepArgs' = [have_ripgrep |-> have_ripgrep,
                    include_pattern |-> include_pattern,
                    exclude_pattern |-> exclude_pattern]
    /\ results' = <<>>
    /\ walked' = NoWalk
    /\ grepPc' = IF have_ripgrep THEN "rg" ELSE "walk"
    /\ UNCHANGED <<grepRet, environ, agents, priorEnv, overlapped, baseEnv, toolVars,
                   permVars, chatVars>>

\* lines 109-140: the output of ripgrep is parsed, one entry per "match" line
GrepRipgrep(n) ==
    /\ grepPc = "rg"
    /\ results' = [i \in 1..n |-> Match(<<0, 0>>, i)]
    /\ grepPc' = "return"
    /\ UNCHANGED <<grepArgs, walked, grepRet, environ, agents, priorEnv, overlapped,
                   baseEnv, toolVars, permVars, chatVars>>

\* line 143: os.walk yields the next directory, holding n files
GrepWalkDir(n) ==
    /\ grepPc = "walk"
    /\ walked.dir < MaxDirs
    /\ walked' = [dir |-> walked.dir + 1, files |-> n, file |-> 0]
    /\ grepPc' = "files"
    /\ UNCHANGED <<grepArgs, results, grepRet, environ, agents, priorEnv, overlapped,
                   baseEnv, toolVars, permVars, chatVars>>

\* line 143: os.walk is exhausted
GrepWalkEnd ==
    /\ grepPc = "walk"
    /\ grepPc' = "return"
    /\ UNCHANGED <<grepArgs, walked, results, grepRet, environ, agents, priorEnv,
                   overlapped, baseEnv, toolVars, permVars, chatVars>>

\* lines 144-172: one iteration of the loop over `files`
GrepFile(file) ==
    /\ grepPc = "files"
    /\ walked.file < walked.files
    /\ results' = results \o SearchFile(grepArgs, file, FilePath(walked))
    /\ walked' = [walked EXCEPT !.file = @ + 1]
    /\ grepPc' = IF ReachesLimitCheck(grepArgs, file) /\ LimitReached(results')
                 THEN "broke" ELSE "files"
    /\ UNCHANGED <<grepArgs, grepRet, environ, agents, priorEnv, overlapped, baseEnv,
                   toolVars, permVars, chatVars>>

\* lines 174-175: the loop over `files` ended or broke; the check of the outer loop
GrepDirDone ==
    /\ \/ grepPc = "broke"
       \/ grepPc = "files" /\ walked.file = walked.files
    /\ grepPc' = IF LimitReached(results) THEN "return" ELSE "walk"
    /\ UNCHANGED <<grepArgs, walked, results, grepRet, environ, agents, priorEnv,
                   overlapped, baseEnv, toolVars, permVars, chatVars>>

\* lines 176-180: return
GrepReturn ==
    /\ grepPc = "return"
    /\ grepRet' = GrepResult(results)
    /\ grepPc' = "returned"
    /\ UNCHANGED <<grepArgs, walked, results, environ, agents, priorEnv, overlapped,
                   baseEnv, toolVars, permVars, chatVars>>

\* the caller has taken the dict
GrepTake ==
    /\ grepPc = "returned"
    /\ grepPc' = "idle"
    /\ grepArgs' = NoGrepArgs
    /\ walked' = NoWalk
    /\ results' = <<>>
    /\ grepRet' = NoGrepResult
    /\ UNCHANGED <<environ, agents, priorEnv, overlapped, baseEnv, toolVars, permVars,
                   chatVars>>

IdleSearch ==
    /\ grepPc = "idle"
    /\ grepArgs = NoGrepArgs
    /\ walked = NoWalk
    /\ results = <<>>
    /\ grepRet = NoGrepResult

-----------------------------------------------------------------------------
(* Initial states of the host environment *)

InitEnv ==
    /\ environ \in EnvVals
    /\ agents = [a \in AgentIds |-> NoAgent]
    /\ priorEnv = [a \in AgentIds |-> NoneTok]
    /\ overlapped = [a \in AgentIds |-> FALSE]
    /\ baseEnv = environ
    /\ IdleSearch

IdleEnv ==
    /\ environ = NoneTok
    /\ agents = [a \in AgentIds |-> NoAgent]
    /\ priorEnv = [a \in AgentIds |-> NoneTok]
    /\ overlapped = [a \in AgentIds |-> FALSE]
    /\ baseEnv = environ
    /\ IdleSearch

-----------------------------------------------------------------------------
(* The backend: what `await self.async_client.chat(...)` ends with *)

\* a response object: `message` is "object", "none" (the attribute is None) or
\* "noattr" (the response has no such attribute); `content` is a str, None, or
\* AbsentV when the message has no such attribute; `tools` is "noattr", "list"
\* (a list of call dicts, `calls`) or "malformed" (a list holding a non-dict)
Response(message, content, tools, calls) ==
    [kind |-> "response", msg |-> None, message |-> message, content |-> content,
     tools |-> tools, calls |-> calls]
\* the invocation raising an Exception (a timeout, a refused connection)
BackendRaise(msg) ==
    [kind |-> "raise", msg |-> msg, message |-> "noattr", content |-> AbsentV,
     tools |-> "noattr", calls |-> <<>>]

Call(name) == [name |-> name, parameters |-> "p1"]
ChatBatches == {<<Call("x")>>, <<Call("y"), Call("x")>>}

BackendOutcomes ==
    {BackendRaise(S("timed out"))}
    \cup {Response("object", S(r), "noattr", <<>>) : r \in {"r1", "r2"}}
    \cup {Response("object", None, "noattr", <<>>),
          Response("object", S("r1"), "list", <<>>),
          Response("none", AbsentV, "noattr", <<>>),
          Response("noattr", AbsentV, "noattr", <<>>),
          Response("object", S("r1"), "malformed", <<>>)}
    \cup {Response("object", S("r2"), "list", b) : b \in ChatBatches}

-----------------------------------------------------------------------------
(* BaseAgent.format_user_message, OllamaAgent._prepare_messages, _prepare_tools *)

SystemPrompt == S("SYSTEM_PROMPT")

\* json.dumps(user_info, indent=2)
JsonDumps(user_info) == <<"s", "json(", user_info, ")">>

\* a slip of format_user_message: the query block placed before the user_info block
format_user_message_query_first(message, user_info) ==
    IF Truthy(user_info)
    THEN Cat(Cat(S("<user_query>\n"), Cat(S(message), S("\n</user_query>\n\n"))),
             Cat(Cat(S("<user_info>\n"), JsonDumps(user_info)), S("\n</user_info>")))
    ELSE Cat(S("<user_query>\n"), Cat(S(message), S("\n</user_query>")))

format_user_message(message, user_info) ==
    IF Truthy(user_info)
    THEN Cat(Cat(Cat(S("<user_info>\n"), JsonDumps(user_info)),
                 S("\n</user_info>\n\n<user_query>\n")),
             Cat(S(message), S("\n</user_query>")))
    ELSE Cat(S("<user_query>\n"), Cat(S(message), S("\n</user_query>")))

Turn(role, content) == [role |-> role, content |-> content]

prepare_messages(history, message) ==
    <<Turn("system", SystemPrompt)>> \o history \o <<Turn("user", message)>>

\* _prepare_tools: tool_data["schema"]["parameters"]["properties"] raises KeyError
\* for a registered tool whose parameters have no "properties"
\* schema["parameters"]["properties"] and schema["parameters"].get("required", [])
HasProperties(spec) == spec # "noprops"
PropertiesOf(spec) == <<"properties", spec>>
RequiredOf(spec) == IF spec = "props_req" THEN <<"arg">> ELSE <<>>
\* lines 335-349: the schema built for one registered tool
ToolSchema(name, entry) ==
    [name |-> name, description |-> entry.schema.description,
     parameters |-> [type |-> "object",
                     properties |-> PropertiesOf(entry.schema.parameters),
                     required |-> RequiredOf(entry.schema.parameters)]]
prepare_tools(reg) ==
    [raised |-> \E n \in DOMAIN reg :
                    HasTool(reg, n) /\ ~HasProperties(reg[n].schema.parameters),
     tools |-> {ToolSchema(n, reg[n]) : n \in {m \in DOMAIN reg : HasTool(reg, m)}}]

\* a _prepare_tools call on the agent; the observer keeps the last two results
\* since the latest register_tool
PrepareTools ==
    LET r == prepare_tools(available_tools)
    IN  /\ prepared' = IF Len(prepared) = 2 THEN <<prepared[2], r>>
                       ELSE Append(prepared, r)
        /\ UNCHANGED <<available_tools, lastReg, prevReg, batch, tool_results, invoked,
                       effects, execPc, permVars, envVars, chatVars>>

-----------------------------------------------------------------------------
(* OllamaAgent.chat *)

\* str(x)
PyStr(v) == IF v = None THEN S("None") ELSE v

\* line 242: str(response.message.content) if response.message and
\* hasattr(response.message, "content") else ""
ReplyText(response) ==
    IF response.message = "object" /\ response.content # AbsentV
    THEN PyStr(response.content)
    ELSE EmptyStr

\* a test of the attribute alone, without the truthiness of the list
HasToolCallsAttrOnly(response) == response.tools # "noattr"

\* lines 236-238
HasToolCalls(response) ==
    \/ response.tools = "malformed"
    \/ response.tools = "list" /\ response.calls # <<>>

\* what chat hands back: a str ("str"), an AgentResponse ("response"), or an
\* exception leaving chat ("raised", `message` its text)
ReturnStr(text) == [kind |-> "str", message |-> text, tool_calls |-> <<>>]
ReturnResponse(content, calls) ==
    [kind |-> "response", message |-> content, tool_calls |-> calls]
Raised(text) == [kind |-> "raised", message |-> text, tool_calls |-> <<>>]

\* an except clause that logs and re-raises
ChatExceptReraise(msg) == Raised(msg)

\* lines 274-276
ChatExcept(msg) == ReturnStr(Cat(S("Error communicating with Ollama: "), msg))

NoModelError == S("Error: No model specified for Ollama agent")

\* an assistant turn stored under the user role
AssistantTurnAsUser(content) == Turn("user", content)

UserTurn(formatted_message) == Turn("user", formatted_message)
AssistantTurn(content) == Turn("assistant", content)

\* lines 250-259
AgentToolCall(result) ==
    [name |-> result.name, parameters |-> result.parameters,
     output |-> result.output, error |-> result.error, thinking |-> None]

\* a turn put in front of the stored ones
InsertTurnFirst(history, turn) == <<turn>> \o history

\* self.conversation_history.append(...)
AppendTurn(history, turn) == Append(history, turn)

\* the part of chat after the await (lines 235-276): the history and the value
\* returned, and the tool calls executed
ChatAfterAwait(history, reg, formatted_message, outcome) ==
    LET nothing == [results |-> <<>>, invoked |-> <<>>]
    IN  IF outcome.kind = "raise"
        THEN [history |-> history, ret |-> ChatExcept(outcome.msg), exec |-> nothing]
        ELSE
        LET h1 == AppendTurn(history, UserTurn(formatted_message))
        IN  IF outcome.message = "noattr"
            THEN [history |-> h1,
                  ret |-> ChatExcept(S("object has no attribute 'message'")),
                  exec |-> nothing]
            ELSE
            LET content == ReplyText(outcome)
                h2 == AppendTurn(h1, AssistantTurn(content))
            IN  IF ~HasToolCalls(outcome)
                THEN [history |-> h2, ret |-> ReturnStr(content), exec |-> nothing]
                ELSE IF outcome.tools = "malformed"
                THEN [history |-> h2, ret |-> ChatExcept(AttrErrorMsg),
                      exec |-> nothing]
                ELSE LET r == execute_tool_calls(reg, outcome.calls)
                     IN  [history |-> h2,
                          ret |-> ReturnResponse(content,
                                     [i \in 1..Len(r.results) |->
                                         AgentToolCall(r.results[i])]),
                          exec |-> r]

NoChat == [pc |-> "idle", message |-> "", user_info |-> NoneTok,
           formatted |-> EmptyStr, messages |-> <<>>, started |-> 0]
NoOutcome == Response("noattr", AbsentV, "noattr", <<>>)

\* `started`: the rank of the call among the calls started
LogEntry(message, user_info, awaited, outcome, ret, unchanged, started) ==
    [message |-> message, user_info |-> user_info, awaited |-> awaited,
     outcome |-> outcome, ret |-> ret, unchanged |-> unchanged, started |-> started]

\* chat up to the await (lines 218-233), or to its end when it does not await
ChatStart(c, message, user_info) ==
    LET formatted_message == format_user_message(message, user_info)
        messages == prepare_messages(conversation_history, formatted_message)
        tools == prepare_tools(available_tools)
        ends(ret) ==
            /\ chatLog' = Append(chatLog,
                  LogEntry(message, user_info, FALSE, NoOutcome, ret, TRUE,
                           nStarted + 1))
            /\ UNCHANGED chats
    IN  /\ chats[c].pc = "idle"
        /\ nStarted < MaxChats
        /\ nStarted' = nStarted + 1
        /\ IF tools.raised THEN ends(Raised(S("KeyError: 'properties'")))
           ELSE IF ~Truthy(model) THEN ends(ReturnStr(NoModelError))
           ELSE /\ chats' = [chats EXCEPT ![c] =
                     [pc |-> "awaiting", message |-> message, user_info |-> user_info,
                      formatted |-> formatted_message, messages |-> messages,
                      started |-> nStarted + 1]]
                /\ UNCHANGED chatLog
        /\ UNCHANGED <<conversation_history, model, toolVars, permVars, envVars,
                       schedVars, queryVars>>

\* the backend invocation ends and chat runs to its return
ChatResume(c, outcome) ==
    LET r == ChatAfterAwait(conversation_history, available_tools,
                            chats[c].formatted, outcome)
    IN  /\ chats[c].pc = "awaiting"
        /\ conversation_history' = r.history
        /\ chats' = [chats EXCEPT ![c] = NoChat]
        /\ chatLog' = Append(chatLog,
              LogEntry(chats[c].message, chats[c].user_info, TRUE, outcome, r.ret,
                       r.history = conversation_history, chats[c].started))
        /\ IF HasToolCalls(outcome) /\ outcome.tools = "list"
           THEN /\ batch' = outcome.calls
                /\ tool_results' = r.exec.results
                /\ invoked' = r.exec.invoked
                /\ effects' = EffectsOf(r.exec.invoked)
           ELSE UNCHANGED <<batch, tool_results, invoked, effects>>
        /\ available_tools' =
              IF HasToolCalls(outcome) /\ outcome.tools = "list"
              THEN RegistryAfterExec(available_tools, outcome.calls)
              ELSE available_tools
        /\ UNCHANGED <<schedVars, queryVars>>
        /\ UNCHANGED <<lastReg, prevReg, execPc, prepared, model, nStarted,
                       permVars, envVars>>

-----------------------------------------------------------------------------
(* OllamaAgent.query_image *)

\* image files: readable, or missing (open raises FileNotFoundError)
ImageLists == {<<>>, <<"img1">>, <<"img1", "img2">>, <<"missing">>, <<"img1", "missing">>}
Queries == {"q1"}
Readable(path) == path # "missing"
\* base64.b64encode(img_file.read()).decode('utf-8')
Base64Of(path) == <<"b64", path>>
\* lines 291-296: the content list, a text item and one image item per path
ImageContent(image_paths, text) ==
    <<[type |-> "text", data |-> <<"text", text>>]>>
    \o [i \in 1..Len(image_paths) |-> [type |-> "image", data |-> Base64Of(image_paths[i])]]
\* lines 299-302
QueryMessages(image_paths, text) ==
    <<Turn("system", SystemPrompt), Turn("user", ImageContent(image_paths, text))>>

\* lines 320-323: the except clause
QueryExcept(history, msg) ==
    [history |-> history,
     ret |-> ReturnStr(Cat(S("Error in Ollama image query: "), msg))]

\* a query_image that appends the reply to the conversation
QueryReturnRecording(history, text) ==
    [history |-> Append(history, Turn("assistant", text)), ret |-> ReturnStr(text)]

\* lines 316, 318: the return statements of the try block
QueryReturn(history, text) == [history |-> history, ret |-> ReturnStr(text)]

NoQuery == [pc |-> "idle", image_paths |-> <<>>, text |-> "", messages |-> <<>>]

QueryLogEntry(image_paths, text, sent, outcome, r) ==
    [image_paths |-> image_paths, text |-> text, sent |-> sent, outcome |-> outcome,
     ret |-> r.ret]

\* query_image up to the await (lines 289-306), or to its end when it does not
\* await
QueryStart(image_paths, text) ==
    LET ends(r) ==
            /\ queryLog' = Append(queryLog,
                  QueryLogEntry(image_paths, text, <<>>, NoOutcome, r))
            /\ conversation_history' = r.history
            /\ UNCHANGED query
    IN  /\ query.pc = "idle"
        /\ Len(queryLog) < MaxQueries
        /\ IF \E i \in 1..Len(image_paths) : ~Readable(image_paths[i])
           THEN ends(QueryExcept(conversation_history, S("No such file or directory")))
           ELSE IF ~Truthy(model)
           THEN ends(QueryReturn(conversation_history, NoModelError))
           ELSE /\ query' = [pc |-> "awaiting", image_paths |-> image_paths,
                             text |-> text,
                             messages |-> QueryMessages(image_paths, text)]
                /\ UNCHANGED <<queryLog, conversation_history>>
        /\ UNCHANGED <<model, chats, nStarted, chatLog, schedVars, toolVars, permVars,
                       envVars>>

\* the backend invocation ends and query_image runs to its return (lines 307-323)
QueryResume(outcome) ==
    LET r == IF outcome.kind = "raise"
             THEN QueryExcept(conversation_history, outcome.msg)
             ELSE IF outcome.message = "noattr"
             THEN QueryExcept(conversation_history,
                              S("object has no attribute 'message'"))
             ELSE QueryReturn(conversation_history, ReplyText(outcome))
    IN  /\ query.pc = "awaiting"
        /\ query' = NoQuery
        /\ queryLog' = Append(queryLog,
              QueryLogEntry(query.image_paths, query.text, query.messages, outcome, r))
        /\ conversation_history' = r.history
        /\ UNCHANGED <<model, chats, nStarted, chatLog, schedVars, toolVars, permVars,
                       envVars>>

IdleQuery ==
    /\ query = NoQuery
    /\ queryLog = <<>>

\* the points of chat at which the coroutine gives the event loop away: before it
\* is called and at `await self.async_client.chat(...)` (line 226), the only await;
\* _execute_tool_calls is a plain function and calls tool_function(**parameters)
\* without awaiting it
YieldsAtAwaitedTool(pc) == pc \in {"idle", "awaiting", "in_tool"}
YieldsAt(pc) == pc \in {"idle", "awaiting"}
\* who holds the event loop once chat call c has reached pc
Holder(c, pc) == IF YieldsAt(pc) THEN "none" ELSE c
\* the event loop runs c: c holds the loop, or nobody does
CanRun(c) == running = c \/ running = "none"

\* chat is called and runs to the await (lines 218-226)
TaskStart(c) ==
    /\ taskPc[c] = "idle"
    /\ CanRun(c)
    /\ taskPc' = [taskPc EXCEPT ![c] = "awaiting"]
    /\ running' = Holder(c, "awaiting")
    /\ todo' = [todo EXCEPT ![c] = <<>>]
    /\ begun' = [begun EXCEPT ![c] = 0]
    /\ recorded' = [recorded EXCEPT ![c] = 0]
    /\ UNCHANGED <<conversation_history, model, chats, nStarted, chatLog, toolVars,
                   permVars, envVars, queryVars>>

\* the backend answered and chat runs on to the loop of _execute_tool_calls
\* (lines 235-247, 364-366), or to its return when no tool call was requested
TaskResponse(c, calls) ==
    LET pc == IF calls = <<>> THEN "idle" ELSE "loop"
    IN  /\ taskPc[c] = "awaiting"
        /\ CanRun(c)
        /\ taskPc' = [taskPc EXCEPT ![c] = pc]
        /\ running' = Holder(c, pc)
        /\ todo' = [todo EXCEPT ![c] = calls]
        /\ UNCHANGED <<begun, recorded, conversation_history, model, chats, nStarted,
                       chatLog, toolVars, permVars, envVars, queryVars>>

\* line 378: tool_function(**parameters) is entered
TaskInvoke(c) ==
    /\ taskPc[c] = "loop"
    /\ CanRun(c)
    /\ taskPc' = [taskPc EXCEPT ![c] = "in_tool"]
    /\ running' = Holder(c, "in_tool")
    /\ begun' = [begun EXCEPT ![c] = @ + 1]
    /\ UNCHANGED <<todo, recorded, conversation_history, model, chats, nStarted,
                   chatLog, toolVars, permVars, envVars, queryVars>>

\* the tool function returned or raised and the result is appended (lines
\* 381-386, 392-400); after the last call the loop ends and chat returns
TaskRecord(c) ==
    LET pc == IF Len(todo[c]) = 1 THEN "idle" ELSE "loop"
    IN  /\ taskPc[c] = "in_tool"
        /\ CanRun(c)
        /\ taskPc' = [taskPc EXCEPT ![c] = pc]
        /\ running' = Holder(c, pc)
        /\ todo' = [todo EXCEPT ![c] = Tail(@)]
        /\ recorded' = [recorded EXCEPT ![c] = @ + 1]
        /\ UNCHANGED <<begun, conversation_history, model, chats, nStarted, chatLog,
                       toolVars, permVars, envVars, queryVars>>

IdleSched ==
    /\ running = "none"
    /\ taskPc = [c \in ChatIds |-> "idle"]
    /\ todo = [c \in ChatIds |-> <<>>]
    /\ begun = [c \in ChatIds |-> 0]
    /\ recorded = [c \in ChatIds |-> 0]

IdleChat ==
    /\ conversation_history = <<>>
    /\ model = "llama3"
    /\ chats = [c \in ChatIds |-> NoChat]
    /\ nStarted = 0
    /\ chatLog = <<>>
    /\ IdleSched
    /\ IdleQuery

InitChatVars ==
    /\ conversation_history = <<>>
    /\ model \in Models
    /\ chats = [c \in ChatIds |-> NoChat]
    /\ nStarted = 0
    /\ chatLog = <<>>
    /\ IdleSched
    /\ IdleQuery

-----------------------------------------------------------------------------
(* Specifications *)

InitTools ==
    /\ available_tools = EmptyRegistry
    /\ lastReg = [n \in Names |-> NoArgs]
    /\ prevReg = [n \in Names |-> NoArgs]
    /\ batch = <<>>
    /\ tool_results = <<>>
    /\ invoked = <<>>
    /\ effects = <<>>
    /\ execPc = "idle"
    /\ prepared = <<>>

\* register_tool calls on a constructed agent
InitRegistry == InitTools /\ IdlePerm /\ IdleEnv /\ IdleChat
NextRegistry ==
    \/ \E n \in Names, a \in RegArgs : RegisterTool(n, a)
    \/ PrepareTools
SpecRegistry == InitRegistry /\ [][NextRegistry]_vars

\* the canonical registration of a tool function under a name
SetupArgs(fn) == [function |-> fn, description |-> "d1", parameters |-> "props"]
SetupRegistry(pick) ==
    [n \in Names |->
        IF pick[n] = "<none>" THEN NoEntry
        ELSE register_tool(EmptyRegistry, n, pick[n], "d1", "props")[n]]

\* batches executed on an agent whose setup registered any tools under any names
InitExec ==
    /\ \E pick \in [Names -> FnIds \cup {"<none>"}] :
          /\ available_tools = SetupRegistry(pick)
          /\ lastReg = [n \in Names |->
                          IF pick[n] = "<none>" THEN NoArgs ELSE SetupArgs(pick[n])]
    /\ prevReg = [n \in Names |-> NoArgs]
    /\ batch = <<>>
    /\ tool_results = <<>>
    /\ invoked = <<>>
    /\ effects = <<>>
    /\ execPc = "idle"
    /\ prepared = <<>>
    /\ IdlePerm
    /\ IdleEnv
    /\ IdleChat
NextExec ==
    \/ \E calls \in Batches : ExecuteToolCalls(calls)
    \/ TakeResults
SpecExec == InitExec /\ [][NextExec]_vars

\* batches executed on an agent whose tools ask for permission, with a decision
\* callback that grants, denies or fails
PermParams == {"p_grant", "p_deny", "p_raise"}
PermCalls == [name : Names, parameters : PermParams]
PermBatches == UNION {[1..n -> PermCalls] : n \in 0..MaxBatch}
PermExecArgs ==
    {a \in PermArgSets :
        /\ a.given /\ a.callback = "custom" /\ a.options.default = "confirm"
        /\ a.options.ops["delete_file"] = Absent}
InitExecPerm ==
    /\ \E pick \in [Names -> {"t_perm", "t_ok", "<none>"}] :
          /\ available_tools = SetupRegistry(pick)
          /\ lastReg = [n \in Names |->
                          IF pick[n] = "<none>" THEN NoArgs ELSE SetupArgs(pick[n])]
    /\ prevReg = [n \in Names |-> NoArgs]
    /\ batch = <<>>
    /\ tool_results = <<>>
    /\ invoked = <<>>
    /\ effects = <<>>
    /\ execPc = "idle"
    /\ prepared = <<>>
    /\ permArgs \in PermExecArgs
    /\ permission_manager = NewPermissionManager(permArgs)
    /\ permLog = <<>>
    /\ IdlePrompt
    /\ IdleEnv
    /\ IdleChat
NextExecPerm ==
    \/ \E calls \in PermBatches : ExecuteToolCalls(calls)
    \/ TakeResults
SpecExecPerm == InitExecPerm /\ [][NextExecPerm]_vars

\* request_permission calls on an agent constructed with any permission arguments
InitPermission == InitTools /\ InitPerm /\ IdleEnv /\ IdleChat
NextPermission ==
    \E o \in Operations, d \in DetailVals, a \in Answers : RequestPermission(o, d, a)
SpecPermission == InitPermission /\ [][NextPermission]_vars

\* invocations of the default permission callback on an agent
InitPrompt == InitTools /\ IdlePerm /\ IdleEnv /\ IdleChat
NextPrompt ==
    \/ PromptBegin
    \/ \E line \in TypedLines : PromptAnswer(line)
    \/ PromptEof
    \/ PromptDone
SpecPrompt == InitPrompt /\ [][NextPrompt]_vars

\* agents constructed and discarded in one process, in any order
InitHost == InitTools /\ IdlePerm /\ InitEnv /\ IdleChat
NextHost ==
    \/ \E a \in AgentIds, h \in HostArgs, o \in ConstructOutcomes : Construct(a, h, o)
    \/ \E a \in AgentIds : Del(a)
SpecHost == InitHost /\ [][NextHost]_vars

\* the registries of the agents that chat: no tool, two tools, and a tool whose
\* declared parameters have no "properties"
ChatRegistries ==
    {EmptyRegistry,
     register_tool(register_tool(EmptyRegistry, "x", "t_ok", "d1", "props"),
                   "y", "t_raise", "d2", "props"),
     register_tool(EmptyRegistry, "x", "t_ok", "d1", "noprops")}

\* chat calls on one agent, overlapping at the backend invocation or not
InitChat ==
    /\ available_tools \in ChatRegistries
    /\ lastReg = [n \in Names |->
          IF available_tools[n] = NoEntry THEN NoArgs
          ELSE [function |-> available_tools[n].function,
                description |-> available_tools[n].schema.description,
                parameters |-> available_tools[n].schema.parameters]]
    /\ prevReg = [n \in Names |-> NoArgs]
    /\ batch = <<>>
    /\ tool_results = <<>>
    /\ invoked = <<>>
    /\ effects = <<>>
    /\ execPc = "idle"
    /\ prepared = <<>>
    /\ IdlePerm
    /\ IdleEnv
    /\ InitChatVars
NextChat ==
    \/ \E c \in ChatIds, i \in ChatInputs : ChatStart(c, i[1], i[2])
    \/ \E c \in ChatIds, o \in BackendOutcomes : ChatResume(c, o)
SpecChat == InitChat /\ [][NextChat]_vars

\* the same, with what the agent itself guarantees to happen.  A call that is made
\* runs to its await or to its return; nothing makes a suspended call go on but the
\* end of the backend invocation (ChatResume): self.timeout is stored at line 82
\* and passed neither to AsyncClient() (line 93) nor to the chat request (lines
\* 226-233), so no step of the agent ends the wait.
AgentSteps == \E c \in ChatIds, i \in ChatInputs : ChatStart(c, i[1], i[2])
SpecChatFair == InitChat /\ [][NextChat]_vars /\ WF_vars(AgentSteps)

\* chat calls on one agent as coroutines of one event loop, with the tool calls of
\* each response executed statement by statement
SchedBatches == UNION {[1..n -> Names] : n \in 0..MaxBatch}
InitSched == InitTools /\ IdlePerm /\ IdleEnv /\ IdleChat
NextSched ==
    \/ \E c \in ChatIds : TaskStart(c)
    \/ \E c \in ChatIds, calls \in SchedBatches : TaskResponse(c, calls)
    \/ \E c \in ChatIds : TaskInvoke(c)
    \/ \E c \in ChatIds : TaskRecord(c)
SpecSched == InitSched /\ [][NextSched]_vars

\* every operation of a constructed agent, in any order and overlapping where the
\* operations await: chat, query_image, register_tool, _prepare_tools,
\* _execute_tool_calls, request_permission
AgentChatInputs == {<<"m2", "ui1">>}
AgentOutcomes ==
    {BackendRaise(S("timed out")),
     Response("noattr", AbsentV, "noattr", <<>>),
     Response("object", S("r2"), "list", <<Call("y"), Call("x")>>)}
AgentQueryOutcomes ==
    {BackendRaise(S("timed out")), Response("object", S("r1"), "noattr", <<>>)}
AgentImageLists == {<<"img1">>, <<"img1", "missing">>}
AgentRegArgs == [function : {"t_ok"}, description : {"d2"}, parameters : {"props_req"}]
\* the calls made so far that the observers record
OpsStarted ==
    nStarted + Len(queryLog) + (IF query.pc = "awaiting" THEN 1 ELSE 0) + Len(permLog)
MayStart == OpsStarted < MaxOps
\* an agent with a model and two registered tools
InitAgent == InitChat /\ Truthy(model) /\ HasTool(available_tools, "y")
NextAgent ==
    \/ MayStart /\ \E c \in ChatIds, i \in AgentChatInputs : ChatStart(c, i[1], i[2])
    \/ \E c \in ChatIds, o \in AgentOutcomes : ChatResume(c, o)
    \/ MayStart /\ \E paths \in AgentImageLists, q \in Queries : QueryStart(paths, q)
    \/ \E o \in AgentQueryOutcomes : QueryResume(o)
    \/ \E a \in AgentRegArgs : RegisterTool("x", a)
    \/ PrepareTools
    \/ ExecuteToolCalls(<<Call("x")>>)
    \/ TakeResults
    \/ MayStart /\ RequestPermission("create_file", "det1", "GRANTED")
SpecAgent == InitAgent /\ [][NextAgent]_vars

\* grep_search calls over any files the walk may meet
InitSearch == InitTools /\ IdlePerm /\ IdleEnv /\ IdleChat
NextSearch ==
    \/ \E rg \in BOOLEAN, inc \in Patterns, exc \in Patterns : GrepSearch(rg, inc, exc)
    \/ \E n \in RgMatchCounts : GrepRipgrep(n)
    \/ \E n \in 0..MaxFiles : GrepWalkDir(n)
    \/ GrepWalkEnd
    \/ \E file \in Files : GrepFile(file)
    \/ GrepDirDone
    \/ GrepReturn
    \/ GrepTake
SpecSearch == InitSearch /\ [][NextSearch]_vars

-----------------------------------------------------------------------------
(* Properties of the execution pipeline *)

CallName(call) == Get(call, "name", "")
CallParams(call) == Get(call, "parameters", EmptyParams)
Registered(call) == HasTool(available_tools, CallName(call))
CallOutcome(call) ==
    ToolFunction(available_tools[CallName(call)].function, CallParams(call))
ToolRaises(call) == Registered(call) /\ CallOutcome(call).kind = "raise"
ToolReturnsDict(call) ==
    Registered(call) /\ CallOutcome(call).kind = "return" /\ CallOutcome(call).isDict

\* the invocations expected of a batch: one per registered call, in order
RECURSIVE ExpectedInvocations(_)
ExpectedInvocations(calls) ==
    IF calls = <<>> THEN <<>>
    ELSE (IF Registered(Head(calls))
          THEN <<[function |-> available_tools[CallName(Head(calls))].function,
                  parameters |-> CallParams(Head(calls))]>>
          ELSE <<>>) \o ExpectedInvocations(Tail(calls))

\* C1 (tool isolation): a returned batch has one result per call, in order; the
\* result of a call whose tool function raised has empty output and the error
\* "Error executing tool: <message>"; the result of a registered call whose
\* function returned carries that function's output and error (None on success);
\* and every registered call was invoked, those after a raising one included.
C1_ToolIsolation ==
    execPc = "returned" =>
        /\ Len(tool_results) = Len(batch)
        /\ invoked = ExpectedInvocations(batch)
        /\ \A i \in 1..Len(batch) :
              /\ tool_results[i].name = CallName(batch[i])
              /\ ToolRaises(batch[i]) =>
                    /\ tool_results[i].output = EmptyStr
                    /\ tool_results[i].error =
                          <<"s", "Error executing tool: ">> \o Tail(CallOutcome(batch[i]).msg)
              /\ ToolReturnsDict(batch[i]) =>
                    /\ tool_results[i].output =
                          (IF CallOutcome(batch[i]).output = AbsentV THEN EmptyStr
                           ELSE CallOutcome(batch[i]).output)
                    /\ tool_results[i].error =
                          (IF CallOutcome(batch[i]).error = AbsentV THEN None
                           ELSE CallOutcome(batch[i]).error)

\* three calls, the second raising, the first and third succeeding
C1_Witness ==
    /\ execPc = "returned"
    /\ Len(batch) = 3
    /\ ToolRaises(batch[2])
    /\ tool_results[2].error = <<"s", "Error executing tool: ", "boom">>
    /\ tool_results[1].error = None /\ tool_results[3].error = None
    /\ tool_results[3].output = <<"s", "out:", "p1">>
    /\ Len(invoked) = 3

\* C2 (unknown tool): a call whose name is not a key of the registry gets a result
\* with that name, empty output and the error "Tool '<name>' not found"; no
\* function is invoked for it and the calls after it are still processed.
C2_UnknownTool ==
    execPc = "returned" =>
        /\ Len(tool_results) = Len(batch)
        /\ Len(invoked) = Cardinality({i \in 1..Len(batch) : Registered(batch[i])})
        /\ \A i \in 1..Len(batch) :
              (batch[i].name # Absent /\ ~Registered(batch[i])) =>
                  /\ tool_results[i].name = batch[i].name
                  /\ tool_results[i].output = EmptyStr
                  /\ tool_results[i].error =
                        <<"s", "Tool '", batch[i].name, "' not found">>

\* an unknown name first, then a registered call that was still invoked
C2_Witness ==
    /\ execPc = "returned"
    /\ Len(batch) = 2
    /\ batch[1].name = "x" /\ ~Registered(batch[1])
    /\ tool_results[1].error = <<"s", "Tool '", "x", "' not found">>
    /\ Registered(batch[2])
    /\ Len(invoked) = 1
    /\ tool_results[2].error = None

\* C3 (result ordering): the returned list is as long as the batch and its i-th
\* result has the name and parameters of the i-th call (the defaults "" or
\* "unknown", and {}, where the call lacks the key), whatever the outcomes.
C3_ResultOrdering ==
    execPc = "returned" =>
        /\ Len(tool_results) = Len(batch)
        /\ \A i \in 1..Len(batch) :
              /\ batch[i].name # Absent => tool_results[i].name = batch[i].name
              /\ batch[i].name = Absent => tool_results[i].name \in {"", "unknown"}
              /\ batch[i].parameters # Absent =>
                    tool_results[i].parameters = batch[i].parameters
              /\ batch[i].parameters = Absent =>
                    tool_results[i].parameters = EmptyParams

\* a success, a tool-not-found and a raised exception in one batch of distinct calls
C3_Witness ==
    /\ execPc = "returned"
    /\ Len(batch) = 3
    /\ batch[1].name = "x" /\ batch[2].name = "y" /\ batch[3].name = "x"
    /\ batch[1].parameters = "p1" /\ batch[3].parameters = Absent
    /\ ~Registered(batch[2])
    /\ ToolRaises(batch[1])
    /\ available_tools["x"].function = "t_raise"
    /\ tool_results[2].name = "y" /\ tool_results[3].parameters = EmptyParams

-----------------------------------------------------------------------------
(* Properties of the registry *)

\* C10 (registry overwrite, last-write-wins): the registry holds an entry for a
\* name exactly when register_tool was called with it, and then the entry is the
\* function and schema of the latest such call; so registering one name changes
\* no other entry and no entry is ever removed.
C10_RegistryLastWriteWins ==
    \A n \in Names :
        IF lastReg[n] = NoArgs
        THEN available_tools[n] = NoEntry
        ELSE available_tools[n] =
                [function |-> lastReg[n].function,
                 schema |-> [name |-> n,
                             description |-> lastReg[n].description,
                             parameters |-> lastReg[n].parameters]]

\* "x" registered twice with different functions and schemas, "y" registered too
C10_Witness ==
    /\ prevReg["x"] # NoArgs
    /\ prevReg["x"].function # lastReg["x"].function
    /\ prevReg["x"].description # lastReg["x"].description
    /\ prevReg["x"].parameters # lastReg["x"].parameters
    /\ available_tools["x"].schema.description = lastReg["x"].description
    /\ available_tools["y"] # NoEntry

-----------------------------------------------------------------------------
(* Properties of the permission layer *)

\* the policy the constructor arguments give an operation: the listed one, or
\* the default policy when the operation is not listed
ConfiguredPolicy(operation) ==
    LET options == IF permArgs.given THEN permArgs.options ELSE DefaultOptions
    IN  IF options.ops[operation] # Absent THEN options.ops[operation]
        ELSE options.default

\* C4 (permission policy determinism): a request_permission call on an operation
\* whose policy is always_allow returned True and invoked no callback, one on an
\* always_deny operation returned False and invoked no callback, and an operation
\* not listed in the options was decided by the default policy.
C4_PolicyDeterminism ==
    \A i \in 1..Len(permLog) :
        LET e == permLog[i]
            listed == permArgs.given /\ permArgs.options.ops[e.operation] # Absent
            default == IF permArgs.given THEN permArgs.options.default
                       ELSE DefaultOptions.default
            policy == IF listed THEN permArgs.options.ops[e.operation] ELSE default
        IN  /\ policy = "always_allow" => (e.ret = TRUE /\ e.calls = <<>>)
            /\ policy = "always_deny" => (e.ret = FALSE /\ e.calls = <<>>)
            /\ policy = "confirm" => Len(e.calls) = 1

\* delete_file listed always_deny and denied although the callback would grant;
\* create_file unlisted and allowed by an always_allow default
C4_Witness ==
    /\ permArgs.given
    /\ permArgs.callback = "custom"
    /\ permArgs.options.ops["delete_file"] = "always_deny"
    /\ permArgs.options.ops["create_file"] = Absent
    /\ permArgs.options.default = "always_allow"
    /\ Len(permLog) = 2
    /\ permLog[1].operation = "delete_file" /\ permLog[1].answer = "GRANTED"
    /\ permLog[1].ret = FALSE /\ permLog[1].calls = <<>>
    /\ permLog[2].operation = "create_file" /\ permLog[2].answer = "DENIED"
    /\ permLog[2].ret = TRUE /\ permLog[2].calls = <<>>

\* C5 (confirm routes to the callback exactly once): a request_permission call on
\* an operation under confirm policy invoked the decision callback (the configured
\* one, or the interactive default when none is configured) exactly once, with a
\* PermissionRequest holding the call's operation and details, and returned True
\* iff the callback answered GRANTED and False iff it answered DENIED.
C5_ConfirmOnce ==
    \A i \in 1..Len(permLog) :
        LET e == permLog[i]
        IN  ConfiguredPolicy(e.operation) = "confirm" =>
                /\ Len(e.calls) = 1
                /\ e.calls[1].request.operation = e.operation
                /\ e.calls[1].request.details = e.details
                /\ e.calls[1].callback =
                      (IF permArgs.callback = "<none>" THEN "interactive" ELSE "custom")
                /\ e.ret \in BOOLEAN
                /\ (e.ret = TRUE) <=> (e.answer = "GRANTED")
                /\ (e.ret = FALSE) <=> (e.answer = "DENIED")

\* a confirm operation granted by the configured callback, then denied by it
C5_Witness ==
    /\ permArgs.given
    /\ permArgs.callback = "custom"
    /\ permArgs.options.ops["create_file"] = "confirm"
    /\ Len(permLog) = 2
    /\ permLog[1].operation = "create_file" /\ permLog[2].operation = "create_file"
    /\ permLog[1].details = "det2"
    /\ permLog[1].answer = "GRANTED" /\ permLog[1].ret = TRUE
    /\ permLog[2].answer = "DENIED" /\ permLog[2].ret = FALSE
    /\ Len(permLog[1].calls) = 1 /\ permLog[1].calls[1].callback = "custom"
    /\ permLog[1].calls[1].request.details = "det2"

-----------------------------------------------------------------------------
(* Properties of the OLLAMA_HOST override *)

\* C9 (environment restoration for one agent): when an agent is discarded and no
\* other agent existed at any time of its life, OLLAMA_HOST is back in the state
\* it had before the agent's construction began (same value, or unset), whether
\* the construction returned, failed at the server check or failed before it.
C9_HostRestored ==
    [][\A a \in AgentIds :
          (Exists(a) /\ agents'[a].phase = "discarded" /\ ~overlapped[a])
              => environ' = priorEnv[a]]_vars

\* one agent, built with a host argument over a set variable, whose server check
\* failed: discarded, and the variable is back
C9_Witness ==
    /\ agents["a1"].phase = "discarded"
    /\ agents["a1"].outcome = "check"
    /\ agents["a1"].host = "http://arg:1"
    /\ ~overlapped["a1"]
    /\ priorEnv["a1"] = "http://env:1"
    /\ environ = "http://env:1"
    /\ agents["a2"].phase = "none"

-----------------------------------------------------------------------------
(* Properties of chat *)

\* a chat call that got a well-formed response requesting no tool call
PlainSuccess(e) ==
    /\ e.awaited
    /\ e.outcome.kind = "response"
    /\ e.outcome.message # "noattr"
    /\ e.outcome.tools = "noattr" \/ (e.outcome.tools = "list" /\ e.outcome.calls = <<>>)
    /\ e.ret.kind = "str"

\* a returned value that reports a failure
ErrorShaped(ret) ==
    /\ ret.kind = "str"
    /\ Len(ret.message) >= 2
    /\ ret.message[2] \in {"Error communicating with Ollama: ",
                           "Error: No model specified for Ollama agent"}

\* C6 (history alternation): when the N chat calls that have ended on a fresh
\* agent all succeeded without tool use, conversation_history has exactly 2N
\* entries, user and assistant alternating from user, and the k-th pair holds the
\* formatted message of the k-th call and the reply that call returned (the
\* backend's content when that is a string).
C6_HistoryAlternation ==
    (\A k \in 1..Len(chatLog) : PlainSuccess(chatLog[k])) =>
        /\ Len(conversation_history) = 2 * Len(chatLog)
        /\ \A k \in 1..Len(chatLog) :
              /\ conversation_history[2 * k - 1].role = "user"
              /\ conversation_history[2 * k - 1].content =
                    format_user_message(chatLog[k].message, chatLog[k].user_info)
              /\ conversation_history[2 * k].role = "assistant"
              /\ conversation_history[2 * k].content = chatLog[k].ret.message
              /\ IsStr(chatLog[k].outcome.content) =>
                    conversation_history[2 * k].content = chatLog[k].outcome.content

\* two plain exchanges with different messages and replies
C6_Witness ==
    /\ Len(chatLog) = 2
    /\ PlainSuccess(chatLog[1]) /\ PlainSuccess(chatLog[2])
    /\ chatLog[1].message = "m1" /\ chatLog[1].user_info = NoneTok
    /\ chatLog[2].message = "m2" /\ chatLog[2].user_info = "ui1"
    /\ chatLog[1].outcome.content = S("r1") /\ chatLog[2].outcome.content = S("r2")
    /\ Len(conversation_history) = 4
    /\ conversation_history[3].content =
          <<"s", "<user_info>\n", "json(", "ui1", ")",
            "\n</user_info>\n\n<user_query>\n", "m2", "\n</user_query>">>
    /\ conversation_history[4] = [role |-> "assistant", content |-> S("r2")]

\* C7 (no partial history on failure): a chat call that returned an error-shaped
\* response left conversation_history exactly as it was before the call.
C7_NoPartialHistory ==
    \A k \in 1..Len(chatLog) :
        ErrorShaped(chatLog[k].ret) => chatLog[k].unchanged

\* C8 (backend errors are recovered at the chat boundary): a chat call whose
\* backend invocation raised returned the string "Error communicating with
\* Ollama: <message>"; no exception left chat.
C8_BackendErrorRecovered ==
    \A k \in 1..Len(chatLog) :
        (chatLog[k].awaited /\ chatLog[k].outcome.kind = "raise") =>
            /\ chatLog[k].ret.kind = "str"
            /\ chatLog[k].ret.message =
                  <<"s", "Error communicating with Ollama: ">>
                      \o Tail(chatLog[k].outcome.msg)

\* a successful exchange, then a call whose backend invocation timed out
C8_Witness ==
    /\ Len(chatLog) = 2
    /\ PlainSuccess(chatLog[1])
    /\ chatLog[2].awaited
    /\ chatLog[2].outcome = BackendRaise(S("timed out"))
    /\ chatLog[2].ret.message = <<"s", "Error communicating with Ollama: ", "timed out">>
    /\ Len(conversation_history) = 2

-----------------------------------------------------------------------------
(* Properties of message formatting and of the chat call *)

\* the formatted message of the chat call in slot c, as chat computed it at line 218
Formatted(c) == chats[c].formatted
\* the two shapes of a formatted message
WithUserInfo(message, user_info) ==
    <<"s", "<user_info>\n", "json(", user_info, ")",
      "\n</user_info>\n\n<user_query>\n", message, "\n</user_query>">>
QueryOnly(message) == <<"s", "<user_query>\n", message, "\n</user_query>">>
\* the position of a token in a string, 0 when it does not occur
IndexOf(str, tok) ==
    IF \E i \in 1..Len(str) : str[i] = tok
    THEN CHOOSE i \in 1..Len(str) : str[i] = tok /\ \A j \in 1..(i - 1) : str[j] # tok
    ELSE 0
Awaiting == {c \in ChatIds : chats[c].pc = "awaiting"}

Sent(c) == chats[c].messages
\* the turns of a sent list between the system turn and the current user turn
Prior(c) == SubSeq(Sent(c), 2, Len(Sent(c)) - 1)
\* user, assistant, user, assistant, ...: whole exchanges, each a user turn followed
\* by its assistant turn
Alternates(turns) ==
    /\ Len(turns) % 2 = 0
    /\ \A i \in 1..Len(turns) :
          turns[i].role = (IF i % 2 = 1 THEN "user" ELSE "assistant")

\* C12 (materialized message list): the list a chat call sends to the backend has
\* the system turn first and nowhere else, then the prior history turns in their
\* stored order, forming a strict user/assistant alternation, and the current
\* formatted user message last.
C12_MessageList ==
    \A c \in Awaiting :
        /\ Len(Sent(c)) >= 2
        /\ Sent(c)[1] = Turn("system", SystemPrompt)
        /\ \A i \in 2..Len(Sent(c)) : Sent(c)[i].role # "system"
        /\ Len(Prior(c)) <= Len(conversation_history)
        /\ Prior(c) = SubSeq(conversation_history, 1, Len(Prior(c)))
        /\ Alternates(Prior(c))
        /\ Sent(c)[Len(Sent(c))] = Turn("user", Formatted(c))

\* a chat call that got a well-formed backend response and ran to its return
\* statement (line 261 or line 269)
Successful(e) ==
    /\ e.awaited
    /\ e.outcome.kind = "response"
    /\ e.outcome.message # "noattr"
    /\ e.outcome.tools # "malformed"
\* the tool calls a backend response requests
Requested(response) == IF response.tools = "list" THEN response.calls ELSE <<>>

\* C13 (response shape): a successful chat call returns an AgentResponse exactly
\* when the backend response requested tool calls, with one tool_calls entry per
\* requested call in the backend's order and the assistant content as message; it
\* returns the plain content string exactly when no tool call was requested.
C13_ResponseShape ==
    \A k \in 1..Len(chatLog) :
        LET e == chatLog[k]
            calls == Requested(e.outcome)
        IN  Successful(e) =>
              /\ e.ret.kind \in {"str", "response"}
              /\ (e.ret.kind = "response") <=> (calls # <<>>)
              /\ (e.ret.kind = "str") <=> (calls = <<>>)
              /\ e.ret.message = ReplyText(e.outcome)
              /\ Len(e.ret.tool_calls) = Len(calls)
              /\ \A i \in 1..Len(calls) :
                    /\ e.ret.tool_calls[i].name = CallName(calls[i])
                    /\ e.ret.tool_calls[i].parameters = CallParams(calls[i])

\* one call answered with two tool calls and one answered with an empty tool_calls
\* list
C13_Witness ==
    /\ Len(chatLog) = 2
    /\ Successful(chatLog[1]) /\ Successful(chatLog[2])
    /\ Len(Requested(chatLog[1].outcome)) = 2
    /\ chatLog[1].ret.kind = "response"
    /\ chatLog[1].ret.tool_calls[1].name # chatLog[1].ret.tool_calls[2].name
    /\ chatLog[2].outcome.tools = "list" /\ chatLog[2].outcome.calls = <<>>
    /\ chatLog[2].ret = ReturnStr(S("r1"))

-----------------------------------------------------------------------------
(* Properties of _prepare_tools *)

\* the schemas of the tools registered now, from the arguments of the latest
\* register_tool of each name
ExpectedSchemas ==
    {[name |-> n, description |-> lastReg[n].description,
      parameters |-> [type |-> "object",
                      properties |-> <<"properties", lastReg[n].parameters>>,
                      required |-> IF lastReg[n].parameters = "props_req"
                                   THEN <<"arg">> ELSE <<>>]] :
        n \in {m \in Names : lastReg[m] # NoArgs}}

\* C14 (prepare_tools idempotent and pure): for every registry state, the
\* prepare_tools calls made with no register_tool in between return equal results,
\* each holding exactly one schema per registered name with its current
\* description, properties and required list.
C14_PrepareToolsIdempotent ==
    /\ \A i \in 1..Len(prepared) :
          /\ ~prepared[i].raised
          /\ prepared[i].tools = ExpectedSchemas
          /\ \A t, u \in prepared[i].tools : t.name = u.name => t = u
    /\ Len(prepared) = 2 => prepared[1] = prepared[2]

-----------------------------------------------------------------------------
(* Properties of repeated permission requests *)

\* C15 (no caching of decisions): of two request_permission calls with the same
\* operation and details under confirm policy, the later one invoked the decision
\* callback again, once, and returned what that invocation answered, whatever the
\* earlier call returned.
C15_NoDecisionCaching ==
    \A i, j \in 1..Len(permLog) :
        (/\ i < j
         /\ permLog[i].operation = permLog[j].operation
         /\ permLog[i].details = permLog[j].details
         /\ ConfiguredPolicy(permLog[j].operation) = "confirm")
        => /\ Len(permLog[i].calls) = 1
           /\ Len(permLog[j].calls) = 1
           /\ permLog[j].calls[1].request = permLog[i].calls[1].request
           /\ permLog[j].ret = (permLog[j].answer = "GRANTED")

\* the same confirm operation with the same details, granted and then denied
C15_Witness ==
    /\ Len(permLog) = 2
    /\ permLog[1].operation = permLog[2].operation
    /\ permLog[1].details = permLog[2].details
    /\ ConfiguredPolicy(permLog[1].operation) = "confirm"
    /\ permLog[1].answer = "GRANTED" /\ permLog[1].ret = TRUE
    /\ permLog[2].answer = "DENIED" /\ permLog[2].ret = FALSE
    /\ Len(permLog[2].calls) = 1

-----------------------------------------------------------------------------
(* Properties of a failing decision callback *)

\* call i of the batch went to a registered permission-checked tool whose
\* permission request is under confirm policy and whose callback invocation raised
\* call j ends with the tool acting: a plain tool, or a permission-checked one
\* that was allowed
CallAnswerGranted(call) ==
    \/ available_tools[CallName(call)].function = "t_ok"
    \/ /\ available_tools[CallName(call)].function = "t_perm"
       /\ \/ ConfiguredPolicy("create_file") = "always_allow"
          \/ /\ ConfiguredPolicy("create_file") = "confirm"
             /\ CallbackAnswer(CallParams(call)) = "GRANTED"

CallbackRaisedIn(i) ==
    /\ Registered(batch[i])
    /\ available_tools[CallName(batch[i])].function = "t_perm"
    /\ ConfiguredPolicy("create_file") = "confirm"
    /\ CallbackAnswer(CallParams(batch[i])) = "RAISE"

\* C16 (permission-callback failure is local to one operation): when the decision
\* callback raises inside a tool invoked by execute_tool_calls, the exception left
\* request_permission and the tool, that call's result has no output and the error
\* "Error executing tool: <message>", the tool's side effect did not take place,
\* and every call of the batch, the later ones included, was executed and reported.
C16_CallbackFailureLocal ==
    execPc = "returned" =>
        \A i \in 1..Len(batch) :
            CallbackRaisedIn(i) =>
                /\ CallOutcome(batch[i]).kind = "raise"
                /\ Len(tool_results) = Len(batch)
                /\ tool_results[i] =
                      ToolCallResult(CallName(batch[i]), CallParams(batch[i]), EmptyStr,
                                     <<"s", "Error executing tool: ", "callback failed">>)
                /\ \A k \in 1..Len(effects) : effects[k] # "p_raise"
                /\ invoked = ExpectedInvocations(batch)
                /\ \A j \in (i + 1)..Len(batch) :
                      /\ tool_results[j].name = CallName(batch[j])
                      /\ (Registered(batch[j])
                             /\ CallAnswerGranted(batch[j])) =>
                            /\ tool_results[j].error = None
                            /\ tool_results[j].output = <<"s", "out:", CallParams(batch[j])>>

\* a batch whose first call meets the failing callback and whose second call, to
\* the same tool, is granted and acts
C16_Witness ==
    /\ execPc = "returned"
    /\ Len(batch) = 2
    /\ CallbackRaisedIn(1)
    /\ tool_results[1].error = <<"s", "Error executing tool: ", "callback failed">>
    /\ CallName(batch[2]) = CallName(batch[1])
    /\ CallParams(batch[2]) = "p_grant"
    /\ tool_results[2].error = None
    /\ effects = <<"p_grant">>

-----------------------------------------------------------------------------
(* Properties of agents sharing the OLLAMA_HOST override *)

\* C17 (no cross-instance leakage of the host override): when agents with
\* different hosts had overlapping lifetimes and all of them have been discarded,
\* in whatever order, OLLAMA_HOST is in the state it had before the first of them
\* was constructed.
C17_NoCrossInstanceLeak ==
    (/\ \A a \in AgentIds : agents[a].phase = "discarded" /\ overlapped[a]
     /\ \A a, b \in AgentIds : a # b => agents[a].host # agents[b].host)
    => environ = baseEnv

-----------------------------------------------------------------------------
(* Properties of the chat coroutines *)

InTool == {c \in ChatIds : taskPc[c] = "in_tool"}
InLoop == {c \in ChatIds : taskPc[c] \in {"loop", "in_tool"}}

\* C18 (sequential tool execution): on one agent at most one tool function
\* invocation is in progress at any time, no chat call runs its tool loop while
\* another is inside its own, and within a batch an invocation begins only when
\* the results of all earlier calls are recorded; also with several chat calls in
\* flight.
C18_SequentialToolExecution ==
    /\ Cardinality(InTool) <= 1
    /\ Cardinality(InLoop) <= 1
    /\ \A c \in ChatIds :
          /\ taskPc[c] = "in_tool" => begun[c] = recorded[c] + 1
          /\ taskPc[c] = "loop" => begun[c] = recorded[c]
          /\ taskPc[c] \in {"loop", "in_tool"} => running = c

\* one chat call is inside its second tool invocation while another waits for the
\* backend
C18_Witness ==
    /\ taskPc["c1"] = "in_tool"
    /\ begun["c1"] = 2 /\ recorded["c1"] = 1
    /\ taskPc["c2"] = "awaiting"

-----------------------------------------------------------------------------
(* Properties of overlapping chat calls *)

\* C19 (history follows completion order): when the chat calls that have ended
\* all succeeded, overlapping or not, conversation_history is their user/assistant
\* pairs in the order in which the calls completed, whatever the order in which
\* they started: the pair of the k-th call to complete is at positions 2k-1, 2k.
C19_CompletionOrder ==
    (\A k \in 1..Len(chatLog) : Successful(chatLog[k])) =>
        /\ Len(conversation_history) = 2 * Len(chatLog)
        /\ \A k \in 1..Len(chatLog) :
              /\ conversation_history[2 * k - 1] =
                    Turn("user", format_user_message(chatLog[k].message,
                                                     chatLog[k].user_info))
              /\ conversation_history[2 * k] =
                    Turn("assistant", ReplyText(chatLog[k].outcome))

\* two overlapping calls with different messages and replies: the one started
\* second completed first, and its pair is first in the history
C19_Witness ==
    /\ Len(chatLog) = 2
    /\ Successful(chatLog[1]) /\ Successful(chatLog[2])
    /\ chatLog[1].started = 2 /\ chatLog[2].started = 1
    /\ chatLog[1].message = "m2" /\ chatLog[2].message = "m1"
    /\ conversation_history[1].content # conversation_history[3].content
    /\ conversation_history[2].content # conversation_history[4].content
    /\ conversation_history[1].content =
          format_user_message("m2", chatLog[1].user_info)

-----------------------------------------------------------------------------
(* Properties of the wait for the backend *)

\* C20 (bounded backend wait): every chat call eventually returns; a call that
\* waits for the backend does not wait forever, the configured timeout ends the
\* wait when the backend never answers.
C20_BoundedBackendWait ==
    \A c \in ChatIds : (chats[c].pc = "awaiting") ~> (chats[c].pc = "idle")

-----------------------------------------------------------------------------
(* Properties of registration mismatches *)

\* C21 (registration never validates, mismatches surface only as execution
\* errors): whatever was registered, with whatever declared parameters, no chat
\* call fails because of it: a chat call never ends by raising, and it ends before
\* its backend invocation only when no model is configured.
C21_MismatchOnlyAtCall ==
    \A k \in 1..Len(chatLog) :
        /\ chatLog[k].ret.kind # "raised"
        /\ ~chatLog[k].awaited => chatLog[k].ret = ReturnStr(NoModelError)

-----------------------------------------------------------------------------
(* Properties of the default permission callback *)

\* the typed lines that are a yes, and those that are a no, once trimmed and
\* lower-cased
YesLines == {<<"y">>, <<"Y", "E", "S">>, <<" ", "y", "e", "s", " ">>}
NoLines == {<<"n">>, <<"\t", "N", "o">>}
ValidLines == YesLines \cup NoLines

-----------------------------------------------------------------------------
(* Frame properties of the operations of an agent *)

IsPrefix(p, q) == Len(p) <= Len(q) /\ p = SubSeq(q, 1, Len(p))

\* C23 (history is append-only): whatever operation of the agent takes a step
\* (chat, query_image, register_tool, prepare_tools, execute_tool_calls,
\* request_permission), the conversation_history before the step is a prefix of
\* the conversation_history after it: entries are never changed, reordered or
\* removed.
C23_HistoryAppendOnly ==
    [][IsPrefix(conversation_history, conversation_history')]_vars

\* the history grew twice, by a failed and by a tool-using chat call, next to a
\* query_image call and a re-registration
C23_Witness ==
    /\ Len(conversation_history) = 3
    /\ Len(chatLog) = 2
    /\ chatLog[1].outcome.message = "noattr"
    /\ chatLog[2].ret.kind = "response"
    /\ Len(queryLog) = 1
    /\ lastReg["x"].description = "d2"

\* the steps of the operations that are not register_tool
TurnStep ==
    \/ chats' # chats \/ chatLog' # chatLog
    \/ prepared' # prepared /\ prepared' # <<>>
    \/ execPc' # execPc
    \/ query' # query \/ queryLog' # queryLog
    \/ permLog' # permLog

\* C24 (registry is read-only during a turn): a step of chat, prepare_tools,
\* execute_tool_calls (or of query_image or request_permission) leaves every
\* registry entry as it was; the registry changes only in a register_tool step.
C24_RegistryReadOnly ==
    [][/\ TurnStep => available_tools' = available_tools
       /\ available_tools' # available_tools => lastReg' # lastReg]_vars

\* a chat call executed both tools, one of which raised, after "x" was registered
\* again; the registry still holds both
C24_Witness ==
    /\ Len(chatLog) = 1
    /\ chatLog[1].ret.kind = "response"
    /\ Len(chatLog[1].ret.tool_calls) = 2
    /\ chatLog[1].ret.tool_calls[1].error # None
    /\ prepared # <<>>
    /\ execPc = "returned"
    /\ lastReg["x"].description = "d2"
    /\ HasTool(available_tools, "x") /\ HasTool(available_tools, "y")

\* a step of query_image
QueryStep == query' # query \/ queryLog' # queryLog

\* C27 (query_image is stateless with respect to the conversation): every step
\* of a query_image call leaves conversation_history and the registry unchanged;
\* a call that ends returns a string, never raises, and what it sent to the
\* backend, if it got that far, is exactly the system turn followed by one user
\* turn holding the query text and the images.
C27_QueryImageStateless ==
    [][QueryStep =>
          /\ conversation_history' = conversation_history
          /\ available_tools' = available_tools
          /\ queryLog' # queryLog =>
                LET e == queryLog'[Len(queryLog')]
                IN  /\ e.ret.kind = "str"
                    /\ e.sent # <<>> =>
                          /\ Len(e.sent) = 2
                          /\ e.sent[1] = [role |-> "system", content |-> SystemPrompt]
                          /\ e.sent[2].role = "user"
                          /\ e.sent[2].content[1].data = <<"text", e.text>>
                          /\ Len(e.sent[2].content) = 1 + Len(e.image_paths)
                    /\ e.sent = <<>> =>
                          e.ret.message[2] \in {"Error in Ollama image query: ",
                                                "Error: No model specified for Ollama agent"}
                    /\ (e.sent # <<>> /\ e.outcome.kind = "response"
                           /\ e.outcome.message = "object") =>
                          e.ret.message = e.outcome.content]_vars

\* a query_image call answered while the history was not empty, and one that
\* failed on a missing file
C27_Witness ==
    /\ Len(queryLog) = 2
    /\ queryLog[1].sent # <<>> /\ queryLog[1].ret = ReturnStr(S("r1"))
    /\ queryLog[2].sent = <<>> /\ queryLog[2].image_paths = <<"img1", "missing">>
    /\ conversation_history # <<>>

-----------------------------------------------------------------------------
(* Properties of dispatch *)

\* how many entries of a sequence satisfy a condition
CountOf(seq, Cond(_)) == Cardinality({i \in 1..Len(seq) : Cond(seq[i])})

\* C25 (exactly-once dispatch without gating): execute_tool_calls invoked, in the
\* order of the batch, the registered function of every call whose name is
\* registered, once, with the call's parameters; it invoked nothing for the other
\* calls and nothing twice, also after an exception; and it asked the permission
\* manager nothing: a tool that does not ask for permission itself ran and
\* succeeded whatever the configured policy.
C25_ExactlyOnceDispatch ==
    execPc = "returned" =>
        /\ Len(invoked) = CountOf(batch, LAMBDA call : Registered(call))
        /\ \A f \in {"t_ok", "t_perm"}, q \in PermParams :
              CountOf(invoked, LAMBDA v : v.function = f /\ v.parameters = q)
                = CountOf(batch, LAMBDA call :
                      /\ Registered(call)
                      /\ available_tools[CallName(call)].function = f
                      /\ CallParams(call) = q)
        /\ \A i \in 1..Len(batch) :
              LET k == CountOf(SubSeq(batch, 1, i), LAMBDA call : Registered(call))
              IN  Registered(batch[i]) =>
                    /\ invoked[k].function = available_tools[CallName(batch[i])].function
                    /\ invoked[k].parameters = CallParams(batch[i])
                    /\ invoked[k].function = "t_ok" =>
                          tool_results[i] =
                              ToolCallResult(CallName(batch[i]), CallParams(batch[i]),
                                             <<"s", "out:", CallParams(batch[i])>>, None)
        /\ permLog = <<>>

\* under an always_deny policy: a plain tool that ran, and a permission-checked
\* tool that was invoked twice, once per call, and refused by itself
C25_Witness ==
    /\ execPc = "returned"
    /\ ConfiguredPolicy("create_file") = "always_deny"
    /\ Len(batch) = 3
    /\ Registered(batch[1]) /\ available_tools[CallName(batch[1])].function = "t_ok"
    /\ Registered(batch[2]) /\ available_tools[CallName(batch[2])].function = "t_perm"
    /\ batch[3] = batch[2]
    /\ Len(invoked) = 3
    /\ tool_results[1].error = None
    /\ tool_results[2].error = S("Permission denied")

-----------------------------------------------------------------------------
(* Properties of the history in every reachable state *)

\* the turns a chat call that ended has added to the history
Contributed(e) ==
    IF e.unchanged THEN 0
    ELSE IF e.outcome.kind = "response" /\ e.outcome.message = "noattr" THEN 1
    ELSE 2

\* C26 (alternation holds in every reachable state): whatever chat calls were
\* made, overlapping at the backend invocation or not, using tools or failing,
\* conversation_history has even length and its roles alternate user, assistant
\* from user; every chat call that ended added two adjacent entries or none, and
\* no entry is a tool result.
C26_AlternationAlways ==
    /\ Len(conversation_history) % 2 = 0
    /\ \A i \in 1..Len(conversation_history) :
          conversation_history[i].role = (IF i % 2 = 1 THEN "user" ELSE "assistant")
    /\ \A k \in 1..Len(chatLog) : Contributed(chatLog[k]) \in {0, 2}

-----------------------------------------------------------------------------
(* Properties of grep_search *)

\* C28 (grep_search match limit): whatever files the walk meets, the result list
\* the fallback path (no ripgrep) returns holds at most 50 matches, and
\* total_matches equals the length of the returned result list.
C28_GrepMatchLimit ==
    (grepPc = "returned" /\ ~grepArgs.have_ripgrep) =>
        /\ Len(grepRet.results) <= MatchLimit
        /\ grepRet.total_matches = Len(grepRet.results)
====
